---- MODULE Spec2Model ----
(***************************************************************************)
(* The 3-D bin-packing engine of the packing simulator                     *)
(* (src/src/components/packing_simulator/services/packingAlgorithm.ts)     *)
(* and the callbacks of the demo component that drive it                   *)
(* (src/unnamed/part_006).                                                 *)
(*                                                                         *)
(* Lengths are integers counted in grid ticks; one length unit of the      *)
(* program is UnitTicks ticks, so that the model contains lengths that     *)
(* differ by less than the program's tolerance of 1 unit.  A support ratio *)
(* (a quotient of two areas) is kept as a reduced fraction [num, den]; a   *)
(* support threshold is an integer number of thousandths.                  *)
(***************************************************************************)
EXTENDS Integers, Sequences, FiniteSets, TLC

VARIABLES
  emsIdCounter,   \* the module-level id counter (packingAlgorithm.ts:10)
  simState,       \* the PackingState held by the demo component
  input,          \* the item list the interactive run was started with
  placedThr,      \* for each packed item, the threshold of the step that placed it
  hl,             \* the runHeadlessSimulation call in progress
  results,        \* the records of the completed runHeadlessSimulation calls
  sa,             \* the runSimulatedAnnealing call in progress
  gen             \* the generateGuillotineItems call in progress

vars == <<emsIdCounter, simState, input, placedThr, hl, results, sa, gen>>

----------------------------------------------------------------------------
(* Bounds of the model *)

UnitTicks == 2
MaxItems == 3
CW == 3
CD == 2
CH == 3

ContainerDims == [width |-> CW, depth |-> CD, height |-> CH]

\* the shapes items are drawn from: small boxes, the whole container, and a
\* box wider than the container (fits nowhere)
Shapes ==
  { [width |-> 1, depth |-> 1, height |-> 1],
    [width |-> 2, depth |-> 1, height |-> 2],
    [width |-> 2, depth |-> 2, height |-> 1],
    [width |-> CW, depth |-> CD, height |-> CH],
    [width |-> CW + 1, depth |-> 1, height |-> 1] }

\* support thresholds, in thousandths (0.6 is the demo's default)
Thresholds == {0, 600, 1000}

Strategies == {"FF", "FFD", "FFH", "CONFLICT_GRAPH"}

\* two of the four values of WeightingHeuristic
Heuristics == {"VOLUME", "CORNER"}

\* the default of the heuristic parameter, and the value the component holds
DefaultHeuristic == "VOLUME"

\* the value the component's `strategy` state starts with
SelectedStrategy == "FFD"

ItemIds == [i \in 1..(MaxItems + 1) |-> <<"item-1", "item-2", "item-3", "item-4", "item-5">>[i]]

----------------------------------------------------------------------------
(* Arithmetic helpers *)

Abs(n) == IF n < 0 THEN -n ELSE n
Min(a, b) == IF a < b THEN a ELSE b
Max(a, b) == IF a > b THEN a ELSE b

RECURSIVE GCD(_, _)
GCD(a, b) == IF b = 0 THEN a ELSE GCD(b, a % b)

\* the quotient n / d of two non-negative numbers, d > 0, as a reduced fraction
Ratio(n, d) == LET g == GCD(n, d) IN [num |-> n \div g, den |-> d \div g]

RECURSIVE SumSeq(_)
SumSeq(s) == IF s = <<>> THEN 0 ELSE Head(s) + SumSeq(Tail(s))

RECURSIVE Flatten(_)
Flatten(ss) == IF ss = <<>> THEN <<>> ELSE Head(ss) \o Flatten(Tail(ss))

----------------------------------------------------------------------------
(* Items *)

Volume(dims) == dims.width * dims.depth * dims.height

\* an item as generateGuillotineItems builds it (the colour plays no part)
MkItem(id, dims) ==
  [id |-> id, dims |-> dims, originalDims |-> dims, selectedRotation |-> 0,
   volume |-> Volume(dims)]

\* item lists: any shapes; ids pairwise distinct, or (lists of two) both
\* items carrying the same id
ItemLists ==
  UNION { { [i \in 1..n |-> MkItem(IF dup THEN ItemIds[1] ELSE ItemIds[i], sh[i])] :
              sh \in [1..n -> Shapes], dup \in IF n = 2 THEN BOOLEAN ELSE {FALSE} } :
          n \in 0..MaxItems }

----------------------------------------------------------------------------
(* EMS ids and the container space *)

resetEMSIdCounter == 0

\* `ems-s${step}-${++emsIdCounter}`: the id made when the counter is ctr
generateEMSId(step, ctr) == [step |-> step, n |-> ctr + 1]

\* returns the root space and the value the counter is left with
createContainerSpace(dims) ==
  LET c0 == resetEMSIdCounter
  IN  [space |-> [id |-> generateEMSId(0, c0),
                  x1 |-> 0, x2 |-> dims.width,
                  y1 |-> 0, y2 |-> dims.depth,
                  z1 |-> 0, z2 |-> dims.height,
                  volume |-> dims.width * dims.depth * dims.height,
                  parentIds |-> <<>>, stepIndex |-> 0, status |-> "ACTIVE"],
       ctr |-> c0 + 1]

----------------------------------------------------------------------------
(* Geometry predicates *)

\* a containment test that misses boxes sharing their lower x face
isIncludedStrict(inner, outer) ==
  /\ inner.x1 > outer.x1 /\ inner.x2 <= outer.x2
  /\ inner.y1 >= outer.y1 /\ inner.y2 <= outer.y2
  /\ inner.z1 >= outer.z1 /\ inner.z2 <= outer.z2

isIncluded(inner, outer) ==
  /\ inner.x1 >= outer.x1 /\ inner.x2 <= outer.x2
  /\ inner.y1 >= outer.y1 /\ inner.y2 <= outer.y2
  /\ inner.z1 >= outer.z1 /\ inner.z2 <= outer.z2

\* an intersection test whose z comparison pairs like bounds
intersectWrongZ(s1, s2) ==
  /\ s1.x1 < s2.x2 /\ s1.x2 > s2.x1
  /\ s1.y1 < s2.y2 /\ s1.y2 > s2.y1
  /\ s1.z1 < s2.z1 /\ s1.z2 > s2.z2

intersect(s1, s2) ==
  /\ s1.x1 < s2.x2 /\ s1.x2 > s2.x1
  /\ s1.y1 < s2.y2 /\ s1.y2 > s2.y1
  /\ s1.z1 < s2.z2 /\ s1.z2 > s2.z1

getIntersectionArea(r1, r2) ==
  LET xOverlap == Max(0, Min(r1.x2, r2.x2) - Max(r1.x1, r2.x1))
      yOverlap == Max(0, Min(r1.y2, r2.y2) - Max(r1.y1, r2.y1))
  IN  xOverlap * yOverlap

----------------------------------------------------------------------------
(* Support validator *)

\* the tolerance 1 of `Math.abs(...) < 1`, in ticks
SupportTol == UnitTicks

\* a floor test that never succeeds
OnFloorNever(pos) == FALSE

\* `pos.z === 0`
OnFloor(pos) == pos.z = 0

\* a validity test that accepts any ratio
SupportValidAlways(supportedArea, itemBaseArea, minSupportThreshold) == TRUE

\* `ratio >= minSupportThreshold - 0.001`, for ratio = supportedArea / itemBaseArea
SupportValid(supportedArea, itemBaseArea, minSupportThreshold) ==
  supportedArea * 1000 >= (minSupportThreshold - 1) * itemBaseArea

calculateSupport(itemDims, pos, placedItems, minSupportThreshold) ==
  LET itemBaseArea == itemDims.width * itemDims.depth
      myRect == [x1 |-> pos.x, x2 |-> pos.x + itemDims.width,
                 y1 |-> pos.y, y2 |-> pos.y + itemDims.depth]
      area(placed) ==
        IF Abs(placed.position.z + placed.dims.height - pos.z) < SupportTol
        THEN getIntersectionArea(myRect,
               [x1 |-> placed.position.x, x2 |-> placed.position.x + placed.dims.width,
                y1 |-> placed.position.y, y2 |-> placed.position.y + placed.dims.depth])
        ELSE 0
      contributing == SelectSeq(placedItems, LAMBDA p : area(p) > 0)
      supportedArea == SumSeq([i \in 1..Len(contributing) |-> area(contributing[i])])
      supporters == [i \in 1..Len(contributing) |-> contributing[i].id]
  IN  IF OnFloor(pos)
      THEN [valid |-> TRUE, ratio |-> Ratio(1, 1), supporters |-> <<"FLOOR">>]
      ELSE [valid |-> SupportValid(supportedArea, itemBaseArea, minSupportThreshold),
            ratio |-> Ratio(supportedArea, itemBaseArea),
            supporters |-> supporters]

----------------------------------------------------------------------------
(* Array.prototype.sort *)

\* the tolerance 1 of `Math.abs(a.z1 - b.z1) > 1`, in ticks
LevelTol == UnitTicks

\* the comparators handed to sort: "ems" is the one of performPackingStep,
\* the others are those of sortItems and runHeadlessSimulation
\* an EMS order that breaks ties of level by descending volume
CompareLargestFirst(kind, a, b) ==
  CASE kind = "ems" -> IF Abs(a.z1 - b.z1) > LevelTol THEN a.z1 - b.z1 ELSE b.volume - a.volume
    [] kind = "FFD" -> b.volume - a.volume
    [] kind = "FFH" -> b.dims.height - a.dims.height
    [] OTHER -> 0

\* a comparator that orders by descending volume when no strategy is matched
CompareDefaultByVolume(kind, a, b) ==
  CASE kind = "ems" -> IF Abs(a.z1 - b.z1) > LevelTol THEN a.z1 - b.z1 ELSE a.volume - b.volume
    [] kind = "FFD" -> b.volume - a.volume
    [] kind = "FFH" -> b.dims.height - a.dims.height
    [] OTHER -> b.volume - a.volume

Compare(kind, a, b) ==
  CASE kind = "ems" -> IF Abs(a.z1 - b.z1) > LevelTol THEN a.z1 - b.z1 ELSE a.volume - b.volume
    [] kind = "FFD" -> b.volume - a.volume
    [] kind = "FFH" -> b.dims.height - a.dims.height
    [] OTHER -> 0

Reverse(s) == [i \in 1..Len(s) |-> s[Len(s) + 1 - i]]

\* the length of the initial run of a, and whether it is strictly descending
RECURSIVE ExtendRun(_, _, _, _)
ExtendRun(kind, a, idx, desc) ==
  IF idx > Len(a) THEN idx - 1
  ELSE LET order == Compare(kind, a[idx], a[idx - 1])
       IN  IF (desc /\ order >= 0) \/ (~desc /\ order < 0)
           THEN idx - 1
           ELSE ExtendRun(kind, a, idx + 1, desc)

\* a search that puts the pivot before the elements it compares equal to
RECURSIVE InsertionPointBeforeEquals(_, _, _, _, _)
InsertionPointBeforeEquals(kind, a, pivot, left, right) ==
  IF left >= right THEN left
  ELSE LET mid == left + ((right - left) \div 2)
       IN  IF Compare(kind, pivot, a[mid]) <= 0
           THEN InsertionPointBeforeEquals(kind, a, pivot, left, mid)
           ELSE InsertionPointBeforeEquals(kind, a, pivot, mid + 1, right)

\* binary search of the insertion point of pivot in a[left .. right-1]
RECURSIVE InsertionPoint(_, _, _, _, _)
InsertionPoint(kind, a, pivot, left, right) ==
  IF left >= right THEN left
  ELSE LET mid == left + ((right - left) \div 2)
       IN  IF Compare(kind, pivot, a[mid]) < 0
           THEN InsertionPoint(kind, a, pivot, left, mid)
           ELSE InsertionPoint(kind, a, pivot, mid + 1, right)

RECURSIVE BinaryInsertionSort(_, _, _)
BinaryInsertionSort(kind, a, start) ==
  IF start > Len(a) THEN a
  ELSE LET pivot == a[start]
           left == InsertionPoint(kind, a, pivot, 1, start)
           moved == [i \in 1..Len(a) |->
                       IF i < left \/ i > start THEN a[i]
                       ELSE IF i = left THEN pivot ELSE a[i - 1]]
       IN  BinaryInsertionSort(kind, moved, start + 1)

\* the sort of the engine the site runs on, for arrays shorter than 64
\* elements: the initial run is found (and reversed when descending), the
\* other elements are inserted into it by binary search.  It is stable, and
\* for a comparator that is a consistent order it is the sorted order.
Sort(kind, a) ==
  IF Len(a) < 2 THEN a
  ELSE LET desc == Compare(kind, a[2], a[1]) < 0
           runLength == ExtendRun(kind, a, 3, desc)
           run == IF desc
                  THEN Reverse(SubSeq(a, 1, runLength)) \o SubSeq(a, runLength + 1, Len(a))
                  ELSE a
       IN  BinaryInsertionSort(kind, run, runLength + 1)

sortItems(items, strategy) ==
  IF strategy = "FFD" THEN Sort("FFD", items)
  ELSE IF strategy = "FFH" THEN Sort("FFH", items)
  ELSE items

----------------------------------------------------------------------------
(* EMS partitioner *)

\* a split whose first sub-space starts at the item's lower x face
NewSpacesWrongFace(ems, itemSpace) ==
  LET all == << [ok |-> itemSpace.x2 < ems.x2, sp |-> [ems EXCEPT !.x1 = itemSpace.x1]],
                [ok |-> itemSpace.x1 > ems.x1, sp |-> [ems EXCEPT !.x2 = itemSpace.x1]],
                [ok |-> itemSpace.y2 < ems.y2, sp |-> [ems EXCEPT !.y1 = itemSpace.y2]],
                [ok |-> itemSpace.y1 > ems.y1, sp |-> [ems EXCEPT !.y2 = itemSpace.y1]],
                [ok |-> itemSpace.z2 < ems.z2, sp |-> [ems EXCEPT !.z1 = itemSpace.z2]],
                [ok |-> itemSpace.z1 > ems.z1, sp |-> [ems EXCEPT !.z2 = itemSpace.z1]] >>
      kept == SelectSeq(all, LAMBDA e : e.ok)
  IN  [i \in 1..Len(kept) |-> [ns |-> kept[i].sp, parent |-> ems.id]]

\* a split that also keeps the empty sub-space beyond a face the item reaches
NewSpacesClosed(ems, itemSpace) ==
  LET all == << [ok |-> itemSpace.x2 <= ems.x2, sp |-> [ems EXCEPT !.x1 = itemSpace.x2]],
                [ok |-> itemSpace.x1 > ems.x1, sp |-> [ems EXCEPT !.x2 = itemSpace.x1]],
                [ok |-> itemSpace.y2 <= ems.y2, sp |-> [ems EXCEPT !.y1 = itemSpace.y2]],
                [ok |-> itemSpace.y1 > ems.y1, sp |-> [ems EXCEPT !.y2 = itemSpace.y1]],
                [ok |-> itemSpace.z2 <= ems.z2, sp |-> [ems EXCEPT !.z1 = itemSpace.z2]],
                [ok |-> itemSpace.z1 > ems.z1, sp |-> [ems EXCEPT !.z2 = itemSpace.z1]] >>
      kept == SelectSeq(all, LAMBDA e : e.ok)
  IN  [i \in 1..Len(kept) |-> [ns |-> kept[i].sp, parent |-> ems.id]]

\* the up to six sub-spaces of ems left around the item's box, in the order
\* the code pushes them
NewSpaces(ems, itemSpace) ==
  LET all == << [ok |-> itemSpace.x2 < ems.x2, sp |-> [ems EXCEPT !.x1 = itemSpace.x2]],
                [ok |-> itemSpace.x1 > ems.x1, sp |-> [ems EXCEPT !.x2 = itemSpace.x1]],
                [ok |-> itemSpace.y2 < ems.y2, sp |-> [ems EXCEPT !.y1 = itemSpace.y2]],
                [ok |-> itemSpace.y1 > ems.y1, sp |-> [ems EXCEPT !.y2 = itemSpace.y1]],
                [ok |-> itemSpace.z2 < ems.z2, sp |-> [ems EXCEPT !.z1 = itemSpace.z2]],
                [ok |-> itemSpace.z1 > ems.z1, sp |-> [ems EXCEPT !.z2 = itemSpace.z1]] >>
      kept == SelectSeq(all, LAMBDA e : e.ok)
  IN  [i \in 1..Len(kept) |-> [ns |-> kept[i].sp, parent |-> ems.id]]

\* a redundancy test that skips the intact spaces
IsRedundantAmongCandidates(k, generatedCandidates, intactEMS) ==
  \E j \in 1..Len(generatedCandidates) :
    j # k /\ isIncluded(generatedCandidates[k], generatedCandidates[j])

\* candidate k is redundant: it is included in an intact space or in another
\* candidate
IsRedundant(k, generatedCandidates, intactEMS) ==
  \/ \E i \in 1..Len(intactEMS) : isIncluded(generatedCandidates[k], intactEMS[i])
  \/ \E j \in 1..Len(generatedCandidates) :
       j # k /\ isIncluded(generatedCandidates[k], generatedCandidates[j])

\* the entries of intersectedEMS, their status left as it is
ConsumedStaysActive(intersectedEMS) == intersectedEMS

\* the entries of intersectedEMS, marked as consumed for the history
Consumed(intersectedEMS) ==
  [i \in 1..Len(intersectedEMS) |-> [intersectedEMS[i] EXCEPT !.status = "CONSUMED"]]

\* the candidate Space made of the sub-space e.ns of the parent e.parent
Candidate(e, id, currentStepIndex) ==
  [id |-> id,
   x1 |-> e.ns.x1, x2 |-> e.ns.x2, y1 |-> e.ns.y1, y2 |-> e.ns.y2,
   z1 |-> e.ns.z1, z2 |-> e.ns.z2,
   volume |-> (e.ns.x2 - e.ns.x1) * (e.ns.y2 - e.ns.y1) * (e.ns.z2 - e.ns.z1),
   parentIds |-> <<e.parent>>,
   stepIndex |-> currentStepIndex, status |-> "ACTIVE"]

\* the candidates of all intersected spaces, in the order they are made; each
\* takes the next id of the counter
GeneratedCandidates(newSpaces, currentStepIndex, ctr) ==
  [k \in 1..Len(newSpaces) |->
     Candidate(newSpaces[k], generateEMSId(currentStepIndex, ctr + k - 1), currentStepIndex)]

\* the candidates, the redundant ones marked as pruned
Marked(generatedCandidates, intactEMS) ==
  [k \in 1..Len(generatedCandidates) |->
     IF IsRedundant(k, generatedCandidates, intactEMS)
     THEN [generatedCandidates[k] EXCEPT !.status = "PRUNED"]
     ELSE generatedCandidates[k]]

\* a result whose active list leaves out the intact spaces
UpdatedWithoutIntact(marked, intactEMS, intersectedEMS, ctr) ==
  [activeEMS |-> SelectSeq(marked, LAMBDA c : c.status = "ACTIVE"),
   historyUpdate |-> Consumed(intersectedEMS) \o marked,
   ctr |-> ctr + Len(marked)]

\* the result of updateEMS, given the marked candidates
Updated(marked, intactEMS, intersectedEMS, ctr) ==
  [activeEMS |-> SelectSeq(marked, LAMBDA c : c.status = "ACTIVE") \o intactEMS,
   historyUpdate |-> Consumed(intersectedEMS) \o marked,
   ctr |-> ctr + Len(marked)]

\* the second half of updateEMS: candidates are generated, pruned and joined
\* to the intact spaces
Prune(intactEMS, intersectedEMS, itemSpace, currentStepIndex, ctr) ==
  Updated(Marked(GeneratedCandidates(
                   Flatten([i \in 1..Len(intersectedEMS) |->
                              NewSpaces(intersectedEMS[i], itemSpace)]),
                   currentStepIndex, ctr),
                 intactEMS),
          intactEMS, intersectedEMS, ctr)

\* returns the next active list, the history records of the placement and
\* the value the id counter is left with
updateEMS(currentActiveEMS, itemSpace, currentStepIndex, ctr) ==
  Prune(SelectSeq(currentActiveEMS, LAMBDA ems : ~intersect(ems, itemSpace)),
        SelectSeq(currentActiveEMS, LAMBDA ems : intersect(ems, itemSpace)),
        itemSpace, currentStepIndex, ctr)

\* a set that adds an entry also when the key is present
MapSetAppends(m, u) == Append(m, u)

\* Map.set on a Map kept as the sequence of its values in insertion order:
\* an existing key keeps its place and takes the new value
MapSet(m, u) ==
  IF \E i \in 1..Len(m) : m[i].id = u.id
  THEN [i \in 1..Len(m) |-> IF m[i].id = u.id THEN u ELSE m[i]]
  ELSE Append(m, u)

RECURSIVE MapSetAll(_, _)
MapSetAll(m, us) == IF us = <<>> THEN m ELSE MapSetAll(MapSet(m, Head(us)), Tail(us))

----------------------------------------------------------------------------
(* Placement policy *)

\* the PlacedItem record of the item put at pos
PlacedItem(item, pos, support) ==
  [id |-> item.id, dims |-> item.dims, originalDims |-> item.originalDims,
   selectedRotation |-> item.selectedRotation, volume |-> item.volume,
   position |-> pos, supportedBy |-> support.supporters,
   supportRatio |-> support.ratio]

\* the box the item takes, as the Space handed to updateEMS
ItemSpace(item, pos, step) ==
  [id |-> "real-placed",
   x1 |-> pos.x, x2 |-> pos.x + item.dims.width,
   y1 |-> pos.y, y2 |-> pos.y + item.dims.depth,
   z1 |-> pos.z, z2 |-> pos.z + item.dims.height,
   volume |-> item.volume, parentIds |-> <<>>,
   stepIndex |-> step, status |-> "CONSUMED"]

\* the state returned by applyPlacement, given the result res of updateEMS
Placed(state, item, placed, res) ==
  [state |-> [state EXCEPT
                !.packedItems = Append(state.packedItems, placed),
                !.itemsToPack = SelectSeq(state.itemsToPack, LAMBDA i : i.id # item.id),
                !.emsList = res.activeEMS,
                !.emsHistory = MapSetAll(MapSetAll(<<>>, state.emsHistory), res.historyUpdate),
                !.stepCount = state.stepCount + 1],
   ctr |-> res.ctr]

\* returns the next state and the value the id counter is left with
applyPlacement(state, item, pos, minSupport, ctr) ==
  Placed(state, item,
         PlacedItem(item, pos, calculateSupport(item.dims, pos, state.packedItems, minSupport)),
         updateEMS(state.emsList, ItemSpace(item, pos, state.stepCount + 1),
                   state.stepCount + 1, ctr))

\* a fit test that leaves out the height
FitsFootprint(ems, item) ==
  /\ ems.x2 - ems.x1 >= item.dims.width
  /\ ems.y2 - ems.y1 >= item.dims.depth

Fits(ems, item) ==
  /\ ems.x2 - ems.x1 >= item.dims.width
  /\ ems.y2 - ems.y1 >= item.dims.depth
  /\ ems.z2 - ems.z1 >= item.dims.height

\* the head stays in the pending queue
UnpackKeepsHead(prev, currentItem) ==
  [prev EXCEPT !.unpackedItems = Append(prev.unpackedItems, currentItem)]

\* the head is not recorded as unpacked
UnpackDropsItem(prev, currentItem) ==
  [prev EXCEPT !.itemsToPack = Tail(prev.itemsToPack)]

\* an unpack that counts as a step
UnpackCountsStep(prev, currentItem) ==
  [prev EXCEPT !.itemsToPack = Tail(prev.itemsToPack),
               !.unpackedItems = Append(prev.unpackedItems, currentItem),
               !.stepCount = prev.stepCount + 1]

\* no space qualifies: the head moves to the unpacked list
Unpack(prev, currentItem) ==
  [prev EXCEPT !.itemsToPack = Tail(prev.itemsToPack),
               !.unpackedItems = Append(prev.unpackedItems, currentItem)]

\* the min corner of a space, where an item is put
Corner(ems) == [x |-> ems.x1, y |-> ems.y1, z |-> ems.z1]

\* the test of `sortedEMS.find`
Qualifies(ems, currentItem, packedItems, minSupport) ==
  /\ Fits(ems, currentItem)
  /\ calculateSupport(currentItem.dims, Corner(ems), packedItems, minSupport).valid

\* the step for a pending head, given the spaces that pass the test of
\* `find`, in sorted order: find returns the first of them
PlaceOrUnpack(prev, currentItem, found, minSupport, ctr) ==
  IF found # <<>>
  THEN applyPlacement(prev, currentItem, Corner(Head(found)), minSupport, ctr)
  ELSE [state |-> Unpack(prev, currentItem), ctr |-> ctr]

\* a completion that counts as a step
CompleteCountsStep(prev) ==
  [prev EXCEPT !.isSimulationComplete = TRUE, !.stepCount = prev.stepCount + 1]

\* `{ ...prev, isSimulationComplete: true }`
Complete(prev) == [prev EXCEPT !.isSimulationComplete = TRUE]

\* the pending queue of prev, put in the order of the strategy
Reordered(prev, strategy) ==
  [prev EXCEPT !.itemsToPack = sortItems(prev.itemsToPack, strategy)]

\* a step that orders the pending queue by the strategy before it looks at
\* the head
performPackingStepReordering(prev, strategy, minSupport, heuristic, ctr) ==
  IF Len(prev.itemsToPack) = 0
  THEN [state |-> Complete(prev), ctr |-> ctr]
  ELSE PlaceOrUnpack(Reordered(prev, strategy), Reordered(prev, strategy).itemsToPack[1],
                     SelectSeq(Sort("ems", prev.emsList),
                               LAMBDA ems : Qualifies(ems, Reordered(prev, strategy).itemsToPack[1],
                                                      prev.packedItems, minSupport)),
                     minSupport, ctr)

\* strategy and heuristic are parameters the body never reads
performPackingStep(prev, strategy, minSupport, heuristic, ctr) ==
  IF Len(prev.itemsToPack) = 0
  THEN [state |-> Complete(prev), ctr |-> ctr]
  ELSE PlaceOrUnpack(prev, prev.itemsToPack[1],
                     SelectSeq(Sort("ems", prev.emsList),
                               LAMBDA ems : Qualifies(ems, prev.itemsToPack[1],
                                                      prev.packedItems, minSupport)),
                     minSupport, ctr)

\* the PackingState a run starts from
InitialState(containerDims, rootSpace, items) ==
  [containerDims |-> containerDims,
   emsList |-> <<rootSpace>>,
   emsHistory |-> <<rootSpace>>,
   packedItems |-> <<>>,
   itemsToPack |-> items,
   unpackedItems |-> <<>>,
   isSimulationComplete |-> FALSE,
   stepCount |-> 0]

----------------------------------------------------------------------------
(* runHeadlessSimulation *)

\* an order that depends on the value found in the shared id counter
HeadlessOrderByCounter(strategy, items) ==
  IF emsIdCounter % 2 = 1
  THEN (IF strategy = "CONFLICT_GRAPH" THEN items ELSE Sort(strategy, items))
  ELSE Reverse(items)

\* the pending queue a headless run starts with
HeadlessOrder(strategy, items) ==
  IF strategy = "CONFLICT_GRAPH" THEN items ELSE Sort(strategy, items)

\* the caller's array once the queue is built: the sort runs on a spread
\* copy, and the array the Conflict Graph branch shares is never written
CallerItems(strategy, items) == items

\* the state built before the loop, and the value the id counter is left with
HeadlessInit(strategy, items, containerDims) ==
  LET root == createContainerSpace(containerDims)
  IN  [state |-> InitialState(containerDims, root.space, HeadlessOrder(strategy, items)),
       ctr |-> root.ctr]

HeadlessContinues(state) == ~state.isSimulationComplete /\ Len(state.itemsToPack) > 0

RECURSIVE HeadlessLoop(_, _, _, _, _)
HeadlessLoop(state, strategy, minSupport, heuristic, ctr) ==
  IF HeadlessContinues(state)
  THEN LET r == performPackingStep(state, strategy, minSupport, heuristic, ctr)
       IN  HeadlessLoop(r.state, strategy, minSupport, heuristic, r.ctr)
  ELSE [state |-> state, ctr |-> ctr]

\* the whole call: the returned state and the value the id counter is left with
runHeadlessSimulation(strategy, items, containerDims, minSupport) ==
  LET start == HeadlessInit(strategy, items, containerDims)
  IN  HeadlessLoop(start.state, strategy, minSupport, DefaultHeuristic, start.ctr)

----------------------------------------------------------------------------
(* The interactive run of the demo component *)

MaxRuns == 2

Idle == [pc |-> "idle"]

\* the state the component holds once mounted: useState builds an empty
\* run, then the mount effect calls resetSimulation.  The list the generator
\* returns and the selected strategy are inputs of the model.
Mounted(items, strategy) ==
  LET root == createContainerSpace(ContainerDims)
  IN  /\ emsIdCounter = root.ctr
      /\ simState = InitialState(ContainerDims, root.space, sortItems(items, strategy))
      /\ input = items
      /\ placedThr = <<>>
      /\ hl = Idle
      /\ results = <<>>
      /\ sa = Idle
      /\ gen = Idle

Init == \E items \in ItemLists, strategy \in Strategies : Mounted(items, strategy)

\* resetSimulation: the run starts again in a fresh container with the list
\* ordered by the strategy now selected (the list drawn at Init stands for
\* the generator's output)
ResetSimulation(strategy) ==
  LET root == createContainerSpace(ContainerDims)
  IN  /\ emsIdCounter' = root.ctr
      /\ simState' = InitialState(ContainerDims, root.space, sortItems(input, strategy))
      /\ placedThr' = <<>>
      /\ UNCHANGED <<input, hl, results, sa, gen>>

\* the thresholds of the packed items after a step with threshold minSupport
ThrAfter(next, minSupport) ==
  IF Len(next.packedItems) > Len(simState.packedItems)
  THEN Append(placedThr, minSupport)
  ELSE placedThr

\* one call of performPackingStep on the held state, as the component calls
\* it (the values the other strategies and heuristics give are compared in
\* every reachable state by StepIgnores below)
PerformPackingStep(minSupport) ==
  LET r == performPackingStep(simState, SelectedStrategy, minSupport, DefaultHeuristic,
                              emsIdCounter)
  IN  /\ simState' = r.state
      /\ emsIdCounter' = r.ctr
      /\ placedThr' = ThrAfter(r.state, minSupport)
      /\ UNCHANGED <<input, hl, results, sa, gen>>

\* the step callback of the component
StepCallback(minSupport) ==
  IF simState.isSimulationComplete \/ Len(simState.itemsToPack) = 0
  THEN /\ simState' = [simState EXCEPT !.isSimulationComplete = TRUE]
       /\ UNCHANGED <<emsIdCounter, input, placedThr, hl, results, sa, gen>>
  ELSE LET r == performPackingStep(simState, SelectedStrategy, minSupport, DefaultHeuristic,
                                   emsIdCounter)
           newState == r.state
       IN  /\ simState' = IF newState.isSimulationComplete \/ Len(newState.itemsToPack) = 0
                          THEN [newState EXCEPT !.isSimulationComplete = TRUE]
                          ELSE newState
           /\ emsIdCounter' = r.ctr
           /\ placedThr' = ThrAfter(newState, minSupport)
           /\ UNCHANGED <<input, hl, results, sa, gen>>

Next ==
  \/ \E strategy \in Strategies : ResetSimulation(strategy)
  \/ \E minSupport \in Thresholds : PerformPackingStep(minSupport)
  \/ \E minSupport \in Thresholds : StepCallback(minSupport)

Spec == Init /\ [][Next]_vars

----------------------------------------------------------------------------
(* Calls of runHeadlessSimulation, one loop iteration at a time *)

\* the demo passes its minSupport state, which it never changes from 0.6
RunThresholds == {600}

\* the example scenario: container 5870 x 2330 x 2200 and three boxes, packed
\* First-Fit at threshold 0.6.  Its lengths are written in tens of units
\* (volumes in units exceed the 32-bit integers of the checker); they differ
\* from each other by 0 or by at least 100 units, so every comparison with a
\* tolerance comes out as at full scale.
ExampleContainer == [width |-> 587, depth |-> 233, height |-> 220]

ExampleItems ==
  << MkItem(ItemIds[1], [width |-> 200, depth |-> 100, height |-> 100]),
     MkItem(ItemIds[2], [width |-> 100, depth |-> 100, height |-> 100]),
     MkItem(ItemIds[3], [width |-> 387, depth |-> 133, height |-> 120]) >>

ExampleArgs ==
  [strategy |-> "FF", items |-> ExampleItems, containerDims |-> ExampleContainer,
   minSupport |-> 600]

HeadlessArgs ==
  [strategy : Strategies, items : ItemLists, containerDims : {ContainerDims},
   minSupport : RunThresholds]
    \cup {ExampleArgs}

\* the run that executes between the calls of interest packs OtherItems
\* unit boxes
OtherItems == 1
OtherArgs ==
  [strategy : {"FF"},
   items : {[i \in 1..OtherItems |-> MkItem(ItemIds[1], [width |-> 1, depth |-> 1, height |-> 1])]},
   containerDims : {ContainerDims},
   minSupport : RunThresholds]

\* before any call: the component as useState builds it, nothing to pack
InitRuns == Mounted(<<>>, "FFD")

\* entry of the call: the state is built, the id counter reset
HeadlessEnter(args) ==
  LET start == HeadlessInit(args.strategy, args.items, args.containerDims)
  IN  /\ hl.pc = "idle"
      /\ hl' = [pc |-> "loop", args |-> args, state |-> start.state, iters |-> 0,
                calledAt |-> emsIdCounter,
                caller |-> CallerItems(args.strategy, args.items)]
      /\ emsIdCounter' = start.ctr
      /\ UNCHANGED <<simState, input, placedThr, results, sa, gen>>

\* a first call, with any arguments
HeadlessStart(args) ==
  /\ results = <<>>
  /\ HeadlessEnter(args)

\* a later call, with the arguments of the first
HeadlessRepeat ==
  /\ results # <<>>
  /\ Len(results) < MaxRuns
  /\ HeadlessEnter(results[1].args)

\* one iteration of the while loop
HeadlessIter ==
  /\ hl.pc = "loop"
  /\ HeadlessContinues(hl.state)
  /\ hl.iters <= MaxItems + 1
  /\ LET r == performPackingStep(hl.state, hl.args.strategy, hl.args.minSupport,
                                  DefaultHeuristic, emsIdCounter)
     IN  /\ hl' = [hl EXCEPT !.state = r.state, !.iters = hl.iters + 1]
         /\ emsIdCounter' = r.ctr
  /\ UNCHANGED <<simState, input, placedThr, results, sa, gen>>

\* the loop condition fails: the state is returned
HeadlessReturn ==
  /\ hl.pc = "loop"
  /\ ~HeadlessContinues(hl.state)
  /\ results' = Append(results, [args |-> hl.args, final |-> hl.state, iters |-> hl.iters,
                                 calledAt |-> hl.calledAt, caller |-> hl.caller])
  /\ hl' = Idle
  /\ UNCHANGED <<emsIdCounter, simState, input, placedThr, sa, gen>>

\* another packing run executes between two calls: all that outlasts it is
\* the value it leaves in the shared id counter
OtherRun(args) ==
  /\ hl.pc = "idle"
  /\ results # <<>>
  /\ Len(results) < MaxRuns
  /\ emsIdCounter' = runHeadlessSimulation(args.strategy, args.items, args.containerDims, args.minSupport).ctr
  /\ UNCHANGED <<simState, input, placedThr, hl, results, sa, gen>>

NextRuns ==
  \/ \E args \in HeadlessArgs : HeadlessStart(args)
  \/ HeadlessRepeat
  \/ HeadlessIter
  \/ HeadlessReturn
  \/ \E args \in OtherArgs : OtherRun(args)

SpecRuns == InitRuns /\ [][NextRuns]_vars

----------------------------------------------------------------------------
(* A step-by-step run with other runs in between *)

\* the items of the step-by-step run: up to MaxItems boxes of two shapes
SharedItemLists ==
  UNION { { [i \in 1..n |-> MkItem(ItemIds[i], sh[i])] :
              sh \in [1..n -> {[width |-> 1, depth |-> 1, height |-> 1],
                               [width |-> 2, depth |-> 1, height |-> 2]}] } :
          n \in 1..MaxItems }

\* the component is mounted with a list to pack step by step
InitShared == \E items \in SharedItemLists : Mounted(items, "FF")

\* another run starts (as the runs of fastPack do while optimize is under
\* way): createContainerSpace resets the shared counter
OtherEnter(args) ==
  /\ Len(results) < MaxRuns
  /\ HeadlessEnter(args)

\* the steps of the run shown and the steps of the other runs, in any order
NextShared ==
  \/ \E minSupport \in RunThresholds : PerformPackingStep(minSupport)
  \/ \E args \in OtherArgs : OtherEnter(args)
  \/ HeadlessIter
  \/ HeadlessReturn

SpecShared == InitShared /\ [][NextShared]_vars

----------------------------------------------------------------------------
(* runSimulatedAnnealing, one loop iteration at a time.  An energy          *)
(* 1 - packed / containerVolume is kept as its numerator                    *)
(* containerVolume - packed, a temperature 0.99^k as its exponent k.        *)

MaxIterations == 2
SAItems == 1

\* the value read at an index past the end of an array
Undefined == [undefined |-> TRUE]

HasUndefined(sol) == \E i \in 1..Len(sol) : sol[i] = Undefined

\* a rotation 2 that takes the depth for the width and for the depth
getRotatedDimsRepeatsDepth(dims, rotation) ==
  CASE rotation % 6 = 0 -> [width |-> dims.width, depth |-> dims.depth, height |-> dims.height]
    [] rotation % 6 = 1 -> [width |-> dims.width, depth |-> dims.height, height |-> dims.depth]
    [] rotation % 6 = 2 -> [width |-> dims.depth, depth |-> dims.depth, height |-> dims.height]
    [] rotation % 6 = 3 -> [width |-> dims.depth, depth |-> dims.height, height |-> dims.width]
    [] rotation % 6 = 4 -> [width |-> dims.height, depth |-> dims.width, height |-> dims.depth]
    [] rotation % 6 = 5 -> [width |-> dims.height, depth |-> dims.depth, height |-> dims.width]

getRotatedDims(dims, rotation) ==
  CASE rotation % 6 = 0 -> [width |-> dims.width, depth |-> dims.depth, height |-> dims.height]
    [] rotation % 6 = 1 -> [width |-> dims.width, depth |-> dims.height, height |-> dims.depth]
    [] rotation % 6 = 2 -> [width |-> dims.depth, depth |-> dims.width, height |-> dims.height]
    [] rotation % 6 = 3 -> [width |-> dims.depth, depth |-> dims.height, height |-> dims.width]
    [] rotation % 6 = 4 -> [width |-> dims.height, depth |-> dims.width, height |-> dims.depth]
    [] rotation % 6 = 5 -> [width |-> dims.height, depth |-> dims.depth, height |-> dims.width]

\* the items handed to the optimizer are those of the component's state, as
\* generated or as an earlier optimization left them: here a flat box, an
\* upright box, or a box of the container's size turned so that it does not
\* fit
SAKinds(id) ==
  { MkItem(id, [width |-> 2, depth |-> 2, height |-> 1]),
    MkItem(id, [width |-> 2, depth |-> 1, height |-> 2]),
    [MkItem(id, ContainerDims) EXCEPT !.selectedRotation = 1,
                                      !.dims = getRotatedDims(ContainerDims, 1)] }

\* an upright box followed by a flat one: both are packed only when the
\* flat one comes first
SAPair ==
  << MkItem(ItemIds[1], [width |-> 2, depth |-> 1, height |-> 2]),
     MkItem(ItemIds[2], [width |-> 2, depth |-> 2, height |-> 1]) >>

SAItemLists ==
  UNION { { items \in [1..n -> UNION {SAKinds(ItemIds[i]) : i \in 1..n}] :
              \A i \in 1..n : items[i].id = ItemIds[i] } :
          n \in 0..SAItems }
    \cup {SAPair}

\* `JSON.parse(JSON.stringify(items))`: a new array of new objects that carry
\* the serialised fields
JSONClone(items) ==
  [i \in 1..Len(items) |->
     [id |-> items[i].id,
      dims |-> [width |-> items[i].dims.width, depth |-> items[i].dims.depth,
                height |-> items[i].dims.height],
      originalDims |-> [width |-> items[i].originalDims.width,
                        depth |-> items[i].originalDims.depth,
                        height |-> items[i].originalDims.height],
      selectedRotation |-> items[i].selectedRotation,
      volume |-> items[i].volume]]

\* the values of `Math.floor(Math.random() * length)`, counted from 1: for an
\* empty array the only value is the first index, which is past the end
RandomIndex(length) == IF length = 0 THEN {1} ELSE 1..length

\* the random draws of one iteration: a swap of two indices, or a rotation
\* 0..5 of one index
Moves(length) ==
  { [kind |-> "swap", a |-> i1, b |-> i2] : i1 \in RandomIndex(length), i2 \in RandomIndex(length) }
    \cup
  { [kind |-> "rotate", a |-> idx, b |-> rot] : idx \in RandomIndex(length), rot \in 0..5 }

\* `[next[i1], next[i2]] = [next[i2], next[i1]]`: on an empty array both
\* reads give undefined and the writes make the array [undefined]
Swap(next, i1, i2) ==
  IF Len(next) = 0
  THEN [threw |-> FALSE, sol |-> <<Undefined>>]
  ELSE [threw |-> FALSE, sol |-> [next EXCEPT ![i1] = next[i2], ![i2] = next[i1]]]

\* the writes to next[idx]: on an empty array next[idx] is undefined and the
\* write to its property throws
Rotate(next, idx, rot) ==
  IF idx > Len(next)
  THEN [threw |-> TRUE, sol |-> next]
  ELSE [threw |-> FALSE,
        sol |-> [next EXCEPT ![idx].selectedRotation = rot,
                             ![idx].dims = getRotatedDims(next[idx].originalDims, rot)]]

Neighbor(curSol, move) ==
  IF move.kind = "swap"
  THEN Swap(JSONClone(curSol), move.a, move.b)
  ELSE Rotate(JSONClone(curSol), move.a, move.b)

PackedVolume(state) ==
  SumSeq([i \in 1..Len(state.packedItems) |-> state.packedItems[i].volume])

\* what fastPack gives for the returned run r
FastPacked(r) == [threw |-> FALSE, volume |-> PackedVolume(r.state), ctr |-> r.ctr]

\* fastPack: the packed volume of a First-Fit run.  On a list that holds
\* undefined the first step reads `currentItem.dims` and throws, after
\* createContainerSpace has reset the id counter.
fastPack(sol, minSupport) ==
  IF HasUndefined(sol)
  THEN [threw |-> TRUE, volume |-> 0, ctr |-> createContainerSpace(ContainerDims).ctr]
  ELSE FastPacked(runHeadlessSimulation("FF", sol, ContainerDims, minSupport))

Energy(volume) == Volume(ContainerDims) - volume

\* the outcomes of `nextE < curE || Math.exp((curE - nextE) / temp) > Math.random()`:
\* Math.random() is in [0, 1) and the exponential is 1 for equal energies and
\* in (0, 1) for a higher nextE
Accepts(nextE, curE) == IF nextE <= curE THEN {TRUE} ELSE BOOLEAN

\* a tracker that follows every accepted solution
TrackBestAlways(best, cur) == cur

\* a tracker that never leaves the first solution
TrackBestNever(best, cur) == best

\* `if (curE < bestE) { bestE = curE; bestSol = [...curSol]; }`
TrackBest(best, cur) == IF cur.e < best.e THEN cur ELSE best

\* the flag of the history record pushed at line 208
AcceptedFlag(accept) == TRUE

HistoryEntry(i, curE, accept) ==
  [iteration |-> i, utilization |-> curE, temperature |-> i + 1, accepted |-> AcceptedFlag(accept)]

\* the locals before the loop, fp being fastPack(curSol)
Started(items, iterations, minSupport, curSol, fp) ==
  /\ sa' = [pc |-> "loop", items |-> items, iterations |-> iterations,
            minSupport |-> minSupport,
            cur |-> [sol |-> curSol, e |-> Energy(fp.volume)],
            best |-> [sol |-> curSol, e |-> Energy(fp.volume)],
            i |-> 0, history |-> <<>>,
            seen |-> {[sol |-> curSol, e |-> Energy(fp.volume)]}, decisions |-> <<>>]
  /\ emsIdCounter' = fp.ctr

SAStart(items, iterations, minSupport) ==
  /\ sa.pc = "idle"
  /\ Started(items, iterations, minSupport, JSONClone(items),
             fastPack(JSONClone(items), minSupport))
  /\ UNCHANGED <<simState, input, placedThr, hl, results, gen>>

\* the rest of an iteration whose neighbour cur has been evaluated
Decided(cur, accept) ==
  sa' = [sa EXCEPT
           !.cur = IF accept THEN cur ELSE @,
           !.best = IF accept THEN TrackBest(@, cur) ELSE @,
           !.i = @ + 1,
           !.history = Append(@, HistoryEntry(sa.i, IF accept THEN cur.e ELSE sa.cur.e, accept)),
           !.seen = IF accept THEN @ \cup {cur} ELSE @,
           !.decisions = Append(@, accept)]

Raised == sa' = [pc |-> "raised", items |-> sa.items, i |-> sa.i]

\* an iteration from the evaluation fp of the neighbour next on
Evaluated(next, fp, accept) ==
  /\ emsIdCounter' = fp.ctr
  /\ IF fp.threw
     THEN accept /\ Raised
     ELSE accept \in Accepts(Energy(fp.volume), sa.cur.e)
          /\ Decided([sol |-> next, e |-> Energy(fp.volume)], accept)

\* an iteration from the neighbour nb on
Drawn(nb, accept) ==
  IF nb.threw
  THEN accept /\ Raised /\ UNCHANGED emsIdCounter
  ELSE Evaluated(nb.sol, fastPack(nb.sol, sa.minSupport), accept)

\* one iteration of the for loop
SAIter ==
  /\ sa.pc = "loop"
  /\ sa.i < sa.iterations
  /\ \E move \in Moves(Len(sa.cur.sol)), accept \in BOOLEAN :
       Drawn(Neighbor(sa.cur.sol, move), accept)
  /\ UNCHANGED <<simState, input, placedThr, hl, results, gen>>

\* `return { items: bestSol, history }`
SAReturn ==
  /\ sa.pc = "loop"
  /\ sa.i = sa.iterations
  /\ sa' = [pc |-> "done", run |-> sa,
            returned |-> [items |-> sa.best.sol, history |-> sa.history]]
  /\ UNCHANGED <<emsIdCounter, simState, input, placedThr, hl, results, gen>>

NextSA ==
  \/ \E items \in SAItemLists, iterations \in 0..MaxIterations, minSupport \in RunThresholds :
       SAStart(items, iterations, minSupport)
  \/ SAIter
  \/ SAReturn

SpecSA == InitRuns /\ [][NextSA]_vars

----------------------------------------------------------------------------
(* generateGuillotineItems, one loop iteration at a time.  The lengths of   *)
(* this section are whole units: the container's sides and minSideLen are   *)
(* integers and every split offset is floored.                              *)

GenMaxItems == 3
GenSide == 4

GenContainers ==
  { [width |-> GenSide, depth |-> 2, height |-> 1],
    [width |-> 2, depth |-> 2, height |-> 2] }

\* the config fields the generator reads: an item count that may be zero or
\* negative, and a minimum side that may be zero or exceed the container
GenConfigs == [maxItems : -1..GenMaxItems, minSideLen : {0, 1, 2, GenSide + 1}]

\* `const maxAttempts = config.maxItems * 10`
maxAttempts(config) == config.maxItems * 10

\* a loop condition that admits one item more
GenContinuesInclusive(g) ==
  /\ Len(g.pendingItems) <= g.config.maxItems
  /\ g.attempts < maxAttempts(g.config)

\* the condition of the while loop
GenContinues(g) ==
  /\ Len(g.pendingItems) < g.config.maxItems
  /\ g.attempts < maxAttempts(g.config)

\* the axes of itm that may be split
EligibleAxes(itm, minSideLen) ==
  {ax \in {"width", "depth", "height"} : itm[ax] >= 2 * minSideLen}

\* the values of `Math.floor(minSideLen + Math.random() * (len - 2 * minSideLen))`
\* for Math.random() in [0, 1): the product is below len - 2 * minSideLen,
\* and the sum may round up to len - minSideLen
Splits(len, minSideLen) == minSideLen..(len - minSideLen)

\* `pendingItems.splice(index, 1); pendingItems.push(itm1, itm2)`
SplitAt(pendingItems, index, ax, split) ==
  SubSeq(pendingItems, 1, index - 1) \o SubSeq(pendingItems, index + 1, Len(pendingItems))
    \o << [pendingItems[index] EXCEPT ![ax] = split],
          [pendingItems[index] EXCEPT ![ax] = pendingItems[index][ax] - split] >>

\* `id: `item-${i + 1}``
GenItemId(i) == <<"item", i>>

\* the items made of the pending boxes
GenItems(pendingItems) ==
  [i \in 1..Len(pendingItems) |-> MkItem(GenItemId(i), pendingItems[i])]

\* entry of the call: the container is the only pending box
GenStart(container, config) ==
  /\ gen.pc = "idle"
  /\ gen' = [pc |-> "loop", container |-> container, config |-> config,
             pendingItems |-> <<container>>, attempts |-> 0]
  /\ UNCHANGED <<emsIdCounter, simState, input, placedThr, hl, results, sa>>

\* an iteration that picked the box at index: it goes on to the next
\* iteration when no axis is eligible, and splits the box otherwise
GenPicked(index, axes) ==
  IF axes = {}
  THEN gen' = [gen EXCEPT !.attempts = @ + 1]
  ELSE \E ax \in axes :
         \E split \in Splits(gen.pendingItems[index][ax], gen.config.minSideLen) :
           gen' = [gen EXCEPT !.attempts = @ + 1,
                              !.pendingItems = SplitAt(@, index, ax, split)]

\* one iteration of the while loop
GenIter ==
  /\ gen.pc = "loop"
  /\ GenContinues(gen)
  /\ \E index \in 1..Len(gen.pendingItems) :
       GenPicked(index, EligibleAxes(gen.pendingItems[index], gen.config.minSideLen))
  /\ UNCHANGED <<emsIdCounter, simState, input, placedThr, hl, results, sa>>

\* the loop condition fails: the items are returned
GenReturn ==
  /\ gen.pc = "loop"
  /\ ~GenContinues(gen)
  /\ gen' = [pc |-> "done", run |-> gen, returned |-> GenItems(gen.pendingItems)]
  /\ UNCHANGED <<emsIdCounter, simState, input, placedThr, hl, results, sa>>

NextGen ==
  \/ \E container \in GenContainers, config \in GenConfigs : GenStart(container, config)
  \/ GenIter
  \/ GenReturn

SpecGen == InitRuns /\ [][NextGen]_vars

----------------------------------------------------------------------------
(* Properties *)

\* the box a placed item occupies
PlacedBox(p) ==
  [x1 |-> p.position.x, x2 |-> p.position.x + p.dims.width,
   y1 |-> p.position.y, y2 |-> p.position.y + p.dims.depth,
   z1 |-> p.position.z, z2 |-> p.position.z + p.dims.height]

\* two boxes share a region of positive volume
SharePositiveVolume(a, b) ==
  /\ Max(a.x1, b.x1) < Min(a.x2, b.x2)
  /\ Max(a.y1, b.y1) < Min(a.y2, b.y2)
  /\ Max(a.z1, b.z1) < Min(a.z2, b.z2)

\* the region two boxes share
SharedBox(a, b) ==
  [x1 |-> Max(a.x1, b.x1), x2 |-> Min(a.x2, b.x2),
   y1 |-> Max(a.y1, b.y1), y2 |-> Min(a.y2, b.y2),
   z1 |-> Max(a.z1, b.z1), z2 |-> Min(a.z2, b.z2)]

\* box a lies in box b, boundaries included
LiesWithin(a, b) ==
  /\ b.x1 <= a.x1 /\ a.x2 <= b.x2
  /\ b.y1 <= a.y1 /\ a.y2 <= b.y2
  /\ b.z1 <= a.z1 /\ a.z2 <= b.z2

ContainerBox(dims) ==
  [x1 |-> 0, x2 |-> dims.width, y1 |-> 0, y2 |-> dims.depth, z1 |-> 0, z2 |-> dims.height]

Packed == simState.packedItems
Active == simState.emsList

\* C1: every placed item's box lies inside the container and shares no
\* positive volume with the box of another placed item.
C1_PlacedInsideAndDisjoint ==
  /\ \A i \in 1..Len(Packed) :
       LiesWithin(PlacedBox(Packed[i]), ContainerBox(simState.containerDims))
  /\ \A i, j \in 1..Len(Packed) :
       i # j => ~SharePositiveVolume(PlacedBox(Packed[i]), PlacedBox(Packed[j]))

\* three items placed, one of them above the floor
C1_Witness ==
  /\ Len(Packed) = 3
  /\ \E i \in 1..Len(Packed) : Packed[i].position.z > 0

\* C2: no space of the active EMS list shares positive volume with the box
\* of a placed item.
C2_ActiveClearOfPlaced ==
  \A e \in 1..Len(Active), i \in 1..Len(Packed) :
    ~SharePositiveVolume(Active[e], PlacedBox(Packed[i]))

\* two items placed and several spaces still active
C2_Witness == Len(Packed) >= 2 /\ Len(Active) >= 3

\* C3: no space of the active list lies within a different space of the
\* active list (equal boxes included).
C3_ActiveNotNested ==
  \A i, j \in 1..Len(Active) : i # j => ~LiesWithin(Active[i], Active[j])

\* a placement whose split produced a redundant candidate, which was pruned,
\* and left several active spaces
C3_Witness ==
  /\ Len(Active) >= 2
  /\ \E h \in 1..Len(simState.emsHistory) : simState.emsHistory[h].status = "PRUNED"

\* C4 as stated: no two distinct spaces of the active list share positive
\* volume.
C4_ActivePairwiseDisjoint ==
  \A i, j \in 1..Len(Active) : i # j => ~SharePositiveVolume(Active[i], Active[j])

\* C4 as amended: two distinct active spaces may share positive volume;
\* when they do, neither lies within the other, and the region they share is
\* clear of every placed item.  While nothing is placed there is one active
\* space.
C4_ActiveOverlapOnlyInFreeVolume ==
  /\ Packed = <<>> => Len(Active) = 1
  /\ \A i, j \in 1..Len(Active) :
       (i # j /\ SharePositiveVolume(Active[i], Active[j])) =>
         /\ ~LiesWithin(Active[i], Active[j])
         /\ \A k \in 1..Len(Packed) :
              ~SharePositiveVolume(SharedBox(Active[i], Active[j]), PlacedBox(Packed[k]))

\* items are placed and two active spaces overlap
C4_Witness ==
  /\ Len(Packed) >= 2
  /\ \E i, j \in 1..Len(Active) : i # j /\ SharePositiveVolume(Active[i], Active[j])

\* C5: every placed item above the floor has a support ratio of at least the
\* threshold of the step that placed it, less 0.001.
C5_SupportThresholdLaw ==
  \A i \in 1..Len(Packed) :
    Packed[i].position.z > 0 =>
      Packed[i].supportRatio.num * 1000 >= (placedThr[i] - 1) * Packed[i].supportRatio.den

\* an item placed above the floor on partial support, by a step with a
\* positive threshold
C5_Witness ==
  \E i \in 1..Len(Packed) :
    /\ Packed[i].position.z > 0
    /\ placedThr[i] = 600
    /\ Packed[i].supportRatio.num < Packed[i].supportRatio.den

\* C6: every placed item on the floor has support ratio 1.0 and the floor
\* sentinel as its only supporter.
C6_SupportFloorLaw ==
  \A i \in 1..Len(Packed) :
    Packed[i].position.z = 0 =>
      /\ Packed[i].supportRatio = [num |-> 1, den |-> 1]
      /\ Packed[i].supportedBy = <<"FLOOR">>

\* an item placed on the floor beside an earlier one, by a step that demands
\* full support
C6_Witness ==
  \E i \in 2..Len(Packed) : Packed[i].position.z = 0 /\ placedThr[i] = 1000

\* C7: the volumes of the placed items sum to at most the container volume.
C7_VolumeBound ==
  SumSeq([i \in 1..Len(Packed) |-> Packed[i].volume]) <= Volume(simState.containerDims)

\* three items placed, filling more than half of the container
C7_Witness ==
  /\ Len(Packed) = 3
  /\ 2 * SumSeq([i \in 1..Len(Packed) |-> Packed[i].volume]) > Volume(simState.containerDims)

\* what C8 compares of a returned state: the placed items (id, position,
\* supporters, support ratio), in order, and the unpacked list
Placements(state) ==
  [packed |-> [i \in 1..Len(state.packedItems) |->
                 [id |-> state.packedItems[i].id,
                  position |-> state.packedItems[i].position,
                  supportedBy |-> state.packedItems[i].supportedBy,
                  supportRatio |-> state.packedItems[i].supportRatio]],
   unpacked |-> state.unpackedItems]

\* C8: two runHeadlessSimulation calls with the same items, strategy,
\* container and threshold return the same placed items and the same
\* unpacked list, whatever value other runs left in the shared id counter.
C8_RepeatedRunsAgree ==
  \A i, j \in 1..Len(results) :
    results[i].args = results[j].args =>
      Placements(results[i].final) = Placements(results[j].final)

\* two calls with the same arguments have returned, each placed and left out
\* items, and they found the id counter at different values
C8_Witness ==
  /\ Len(results) >= 2
  /\ results[1].args = results[2].args
  /\ results[1].calledAt # results[2].calledAt
  /\ Len(results[2].final.packedItems) >= 2
  /\ Len(results[2].final.unpackedItems) >= 1

\* C9: a runHeadlessSimulation call makes at most one step per input item
\* and returns a state with an empty pending queue: while the loop runs, the
\* iterations made and the items still pending never add up to more than the
\* input items, so the loop condition fails after at most that many
\* iterations, whether the items fit or not.
C9_RunTerminates ==
  /\ hl.pc = "loop" => hl.iters + Len(hl.state.itemsToPack) <= Len(hl.args.items)
  /\ \A r \in 1..Len(results) :
       /\ results[r].iters <= Len(results[r].args.items)
       /\ results[r].final.itemsToPack = <<>>

\* a call has returned after one step per item, none of which fitted
C9_Witness ==
  \E r \in 1..Len(results) :
    /\ results[r].iters = MaxItems
    /\ Len(results[r].final.unpackedItems) = MaxItems
    /\ results[r].final.itemsToPack = <<>>

DistinctIds(items) == \A i, j \in 1..Len(items) : i # j => items[i].id # items[j].id

Occurrences(id, items) == Cardinality({i \in 1..Len(items) : items[i].id = id})

IsPrefix(s, t) == Len(s) <= Len(t) /\ SubSeq(t, 1, Len(s)) = s

\* each input item is in exactly one of pending, packed and unpacked
InOnePlace ==
  /\ Len(simState.itemsToPack) + Len(Packed) + Len(simState.unpackedItems) = Len(input)
  /\ \A k \in 1..Len(input) :
       Occurrences(input[k].id, simState.itemsToPack) + Occurrences(input[k].id, Packed)
         + Occurrences(input[k].id, simState.unpackedItems) = 1

AnyStep == \E minSupport \in Thresholds : PerformPackingStep(minSupport) \/ StepCallback(minSupport)

\* C10: for an input list with pairwise distinct ids, every input item is in
\* exactly one of the pending queue, the packed sequence and the unpacked
\* list, and a step keeps every unpacked item in the unpacked list.
C10_ItemsInOnePlace ==
  /\ [](DistinctIds(input) => InOnePlace)
  /\ [][\/ IsPrefix(simState.unpackedItems, simState'.unpackedItems)
        \/ ~(DistinctIds(input) /\ AnyStep)]_vars

\* distinct ids; an item was left out and a later one was placed
C10_Witness ==
  /\ DistinctIds(input)
  /\ Len(simState.unpackedItems) = 1
  /\ Len(Packed) = 2
  /\ \E i \in 1..Len(input) :
       /\ input[i].id = simState.unpackedItems[1].id
       /\ \E j \in (i + 1)..Len(input) : \E k \in 1..Len(Packed) : Packed[k].id = input[j].id

----------------------------------------------------------------------------
(* The annealing run *)

\* the energy a First-Fit run gives the solution sol
EnergyOf(sol, minSupport) == Energy(fastPack(sol, minSupport).volume)

\* C11: from one iteration of an optimize run to the next the tracked best
\* energy never increases, and the First-Fit packed volume of the tracked
\* best solution never decreases
C11_BestEnergyNeverIncreases ==
  [][(sa.pc = "loop" /\ sa'.pc = "loop") =>
       /\ sa'.best.e <= sa.best.e
       /\ EnergyOf(sa'.best.sol, sa.minSupport) <= EnergyOf(sa.best.sol, sa.minSupport)]_vars

\* a worse neighbour has been accepted after the best one was found
C11_Witness ==
  /\ sa.pc = "loop"
  /\ sa.i >= 2
  /\ sa.cur.e > sa.best.e
  /\ \E s \in sa.seen : s.e > sa.best.e /\ s.sol # sa.cur.sol

\* C12: the sequence optimize returns is one of the initial sequence and the
\* accepted neighbours, none of these has a lower energy, and its First-Fit
\* packed volume is at least that of the input sequence
C12_ReturnsLowestEnergySeen ==
  sa.pc = "done" =>
    /\ \E s \in sa.run.seen : s.sol = sa.returned.items
    /\ \A t \in sa.run.seen : EnergyOf(sa.returned.items, sa.run.minSupport) <= t.e
    /\ fastPack(sa.returned.items, sa.run.minSupport).volume
         >= fastPack(sa.run.items, sa.run.minSupport).volume

\* the walk ended on a solution worse than the returned one, which is
\* better than the input
C12_Witness ==
  /\ sa.pc = "done"
  /\ sa.run.cur.e > sa.run.best.e
  /\ sa.returned.items # JSONClone(sa.run.items)
  /\ EnergyOf(sa.returned.items, sa.run.minSupport) < EnergyOf(sa.run.items, sa.run.minSupport)

----------------------------------------------------------------------------
(* The example scenario *)

ExampleRuns == {k \in 1..Len(results) : results[k].args = ExampleArgs}

OnFloorAt(p, x, y) ==
  /\ p.position = [x |-> x, y |-> y, z |-> 0]
  /\ p.supportRatio = Ratio(1, 1)

\* C13 as stated: in the example scenario the first item is placed at
\* (0,0,0) and the second at (2000,0,0), both with support ratio 1
C13_SecondItemAlongX ==
  \A k \in ExampleRuns :
    /\ Len(results[k].final.packedItems) >= 2
    /\ results[k].final.packedItems[1].id = ItemIds[1]
    /\ OnFloorAt(results[k].final.packedItems[1], 0, 0)
    /\ results[k].final.packedItems[2].id = ItemIds[2]
    /\ OnFloorAt(results[k].final.packedItems[2], 200, 0)

\* C13, amended: in the example scenario the first item is placed at
\* (0,0,0) and the second at (0,1000,0), both with support ratio 1
C13_SecondItemAlongY ==
  \A k \in ExampleRuns :
    /\ Len(results[k].final.packedItems) >= 2
    /\ results[k].final.packedItems[1].id = ItemIds[1]
    /\ OnFloorAt(results[k].final.packedItems[1], 0, 0)
    /\ results[k].final.packedItems[2].id = ItemIds[2]
    /\ OnFloorAt(results[k].final.packedItems[2], 0, 100)

\* a run of the example scenario has returned
C13_Witness ==
  \E k \in ExampleRuns :
    /\ results[k].final.itemsToPack = <<>>
    /\ Len(results[k].final.packedItems) >= 2

----------------------------------------------------------------------------
(* An item of the container's size *)

ExactFitInput == Len(input) = 1 /\ input[1].dims = ContainerDims

\* C14: when the only item has the container's dimensions, once it has left
\* the pending queue it is placed at (0,0,0), the active EMS list is empty
\* and the packed volume is the container's volume
C14_ExactFitFillsContainer ==
  (ExactFitInput /\ simState.itemsToPack = <<>>) =>
    /\ Len(Packed) = 1
    /\ Packed[1].position = [x |-> 0, y |-> 0, z |-> 0]
    /\ Active = <<>>
    /\ PackedVolume(simState) = Volume(simState.containerDims)

\* the item of the container's size has been stepped
C14_Witness ==
  /\ ExactFitInput
  /\ simState.itemsToPack = <<>>
  /\ simState.stepCount = 1

----------------------------------------------------------------------------
(* Strategies *)

\* the state runHeadlessSimulation returns for args under another strategy
ReturnedUnder(strategy, args) ==
  runHeadlessSimulation(strategy, args.items, args.containerDims, args.minSupport).state

\* C15: a runHeadlessSimulation call with the Conflict Graph strategy returns
\* the placed items and the unpacked list that a First Fit call returns for
\* the same item list, container and threshold
C15_ConflictGraphAsFirstFit ==
  \A k \in 1..Len(results) :
    results[k].args.strategy = "CONFLICT_GRAPH" =>
      Placements(results[k].final) = Placements(ReturnedUnder("FF", results[k].args))

\* a Conflict Graph call has returned for a list that First Fit Decreasing
\* packs differently
C15_Witness ==
  \E k \in 1..Len(results) :
    /\ results[k].args.strategy = "CONFLICT_GRAPH"
    /\ Len(results[k].final.packedItems) >= 1
    /\ Len(results[k].final.unpackedItems) >= 1
    /\ Placements(results[k].final) # Placements(ReturnedUnder("FFD", results[k].args))

\* the key a strategy orders the queue by, larger keys first
SortKey(strategy, item) ==
  CASE strategy = "FFD" -> item.volume
    [] strategy = "FFH" -> item.dims.height
    [] OTHER -> 0

\* queue holds the items by non-increasing key, items of equal key in their
\* input order
IsStableOrder(queue, items, strategy) ==
  /\ Len(queue) = Len(items)
  /\ \E p \in Permutations(1..Len(items)) :
       /\ queue = [i \in 1..Len(items) |-> items[p[i]]]
       /\ \A i, j \in 1..Len(items) :
            i < j =>
              \/ SortKey(strategy, items[p[i]]) > SortKey(strategy, items[p[j]])
              \/ /\ SortKey(strategy, items[p[i]]) = SortKey(strategy, items[p[j]])
                 /\ p[i] < p[j]

\* s is t with some elements left out
IsSubsequence(s, t) ==
  \E pick \in SUBSET (1..Len(t)) :
    /\ Cardinality(pick) = Len(s)
    /\ \A i \in 1..Len(s) :
         s[i] = t[CHOOSE k \in pick : Cardinality({m \in pick : m < k}) = i - 1]

\* the items by non-increasing key, items of equal key in input order
StableOrder(items, strategy) ==
  [i \in 1..Len(items) |->
     items[(CHOOSE p \in Permutations(1..Len(items)) :
              \A a, b \in 1..Len(items) :
                a < b =>
                  \/ SortKey(strategy, items[p[a]]) > SortKey(strategy, items[p[b]])
                  \/ /\ SortKey(strategy, items[p[a]]) = SortKey(strategy, items[p[b]])
                     /\ p[a] < p[b])[i]]]

\* the tail of queue from its element k + 1 on
From(queue, k) == SubSeq(queue, k + 1, Len(queue))

\* the pending queue is what is left of queue: a tail of it, or (items that
\* share an id leave the queue together) a tail with elements left out
LeftOf(pending, queue, distinct) ==
  /\ IsSubsequence(pending, queue)
  /\ distinct => \E k \in 0..Len(queue) : pending = From(queue, k)

\* C16: a runHeadlessSimulation call starts with the queue in input order
\* under First Fit, by non-increasing volume under First Fit Decreasing and
\* by non-increasing height under First Fit Height, items of equal key in
\* input order; the steps take the items from the head of that queue, and
\* the caller's list stays as it was
C16_AttemptOrder ==
  /\ hl.pc = "loop" =>
       /\ hl.caller = hl.args.items
       /\ hl.iters = 0 => IsStableOrder(hl.state.itemsToPack, hl.args.items, hl.args.strategy)
       /\ LeftOf(hl.state.itemsToPack, StableOrder(hl.args.items, hl.args.strategy),
                 DistinctIds(hl.args.items))
  /\ \A k \in 1..Len(results) : results[k].caller = results[k].args.items

\* a First Fit Decreasing call and a First Fit Height call have been entered
\* with a list that is not in their order and holds two items of equal key
C16_Witness ==
  /\ hl.pc = "loop"
  /\ hl.iters = 1
  /\ hl.args.strategy \in {"FFD", "FFH"}
  /\ Len(hl.args.items) >= 3
  /\ ~IsStableOrder(hl.args.items, hl.args.items, hl.args.strategy)
  /\ \E i, j \in 1..Len(hl.args.items) :
       /\ i # j
       /\ hl.args.items[i] # hl.args.items[j]
       /\ SortKey(hl.args.strategy, hl.args.items[i]) = SortKey(hl.args.strategy, hl.args.items[j])

----------------------------------------------------------------------------
(* Totality *)

\* C17 as stated: an optimize call on a well-formed input (any item list,
\* the empty one included, any iteration count) never raises
C17_OptimizeNeverRaises == sa.pc # "raised"

----------------------------------------------------------------------------
(* Completion *)

\* C18 as stated: the state a runHeadlessSimulation call returns has an
\* empty pending queue and its completion flag set
C18_ReturnedStateComplete ==
  \A k \in 1..Len(results) :
    /\ results[k].final.itemsToPack = <<>>
    /\ results[k].final.isSimulationComplete

\* C19: a step on a state with an empty pending queue sets the completion
\* flag and changes nothing else, and a step on a state whose flag is set
\* (its queue is empty then) leaves the state as it is
C19_CompleteIsTerminal ==
  /\ [](simState.isSimulationComplete => simState.itemsToPack = <<>>)
  /\ [][(simState.itemsToPack = <<>> /\ AnyStep) =>
          /\ simState' = [simState EXCEPT !.isSimulationComplete = TRUE]
          /\ simState.isSimulationComplete => simState' = simState
          /\ emsIdCounter' = emsIdCounter]_vars

\* a run has completed with items packed and items left out
C19_Witness ==
  /\ simState.isSimulationComplete
  /\ Len(simState.packedItems) >= 2
  /\ Len(simState.unpackedItems) >= 1

----------------------------------------------------------------------------
(* The history of an annealing run *)

\* C20 as stated: the flag of each history record tells whether the
\* neighbour of its iteration was accepted
C20_FlagTellsAcceptance ==
  sa.pc = "loop" =>
    \A k \in 1..Len(sa.history) : sa.history[k].accepted = sa.decisions[k]

----------------------------------------------------------------------------
(* Support ratios *)

\* C22 as stated: the support ratio recorded with a placed item lies in
\* [0, 1]
C22_SupportRatioInUnitInterval ==
  \A i \in 1..Len(Packed) :
    /\ Packed[i].supportRatio.num >= 0
    /\ Packed[i].supportRatio.num <= Packed[i].supportRatio.den

----------------------------------------------------------------------------
(* The space a step uses *)

\* e comes strictly before used in the order by level, then volume
StrictlyBefore(e, used) ==
  \/ e.z1 < used.z1
  \/ e.z1 = used.z1 /\ e.volume < used.volume

\* in the state prev, a space with its min corner at pos qualifies for the
\* head item and no qualifying space comes strictly before it
UsedIsFirst(prev, pos, minSupport) ==
  \E u \in 1..Len(prev.emsList) :
    /\ Corner(prev.emsList[u]) = pos
    /\ Qualifies(prev.emsList[u], prev.itemsToPack[1], prev.packedItems, minSupport)
    /\ \A k \in 1..Len(prev.emsList) :
         Qualifies(prev.emsList[k], prev.itemsToPack[1], prev.packedItems, minSupport)
           => ~StrictlyBefore(prev.emsList[k], prev.emsList[u])

\* C23 as stated: a step that places the head item uses a space that no
\* qualifying active space precedes by a strictly lower z1, or by the same z1
\* and a strictly smaller volume
C23_UsesFirstByLevelThenVolume ==
  [][\A minSupport \in Thresholds :
       (/\ Len(simState'.packedItems) = Len(simState.packedItems) + 1
        /\ PerformPackingStep(minSupport) \/ StepCallback(minSupport))
         => UsedIsFirst(simState, simState'.packedItems[Len(simState'.packedItems)].position,
                        minSupport)]_vars

----------------------------------------------------------------------------
(* Free volume *)

\* the grid cells of the container, each named by its min corner: all
\* coordinates are whole ticks, so a cell lies inside a box or outside it
Cells ==
  (0..(simState.containerDims.width - 1))
    \X (0..(simState.containerDims.depth - 1))
    \X (0..(simState.containerDims.height - 1))

\* the cell c lies in the box b
CellIn(c, b) ==
  /\ b.x1 <= c[1] /\ c[1] < b.x2
  /\ b.y1 <= c[2] /\ c[2] < b.y2
  /\ b.z1 <= c[3] /\ c[3] < b.z2

\* the cell c lies in the box of the placed item p
CellInItem(c, p) ==
  /\ p.position.x <= c[1] /\ c[1] < p.position.x + p.dims.width
  /\ p.position.y <= c[2] /\ c[2] < p.position.y + p.dims.depth
  /\ p.position.z <= c[3] /\ c[3] < p.position.z + p.dims.height

\* C24: every point of the container outside the placed items' boxes lies in
\* an active space, and every active space lies inside the container
C24_NoFreeVolumeLost ==
  [](/\ \A c \in Cells :
          \/ \E k \in 1..Len(Active) : CellIn(c, Active[k])
          \/ \E i \in 1..Len(Packed) : CellInItem(c, Packed[i])
     /\ \A k \in 1..Len(Active) :
          LiesWithin(Active[k], ContainerBox(simState.containerDims)))

\* two items are placed, some cell is taken and some cell is free
C24_Witness ==
  /\ Len(Packed) >= 2
  /\ \E c \in Cells : \E i \in 1..Len(Packed) : CellInItem(c, Packed[i])
  /\ \E c \in Cells : \A i \in 1..Len(Packed) : ~CellInItem(c, Packed[i])
  /\ \E k \in 1..Len(Active) : Active[k].stepIndex = 1

----------------------------------------------------------------------------
(* The frame of a step *)

\* the step from the current state to the next one places an item
PlacesItem == Len(simState'.packedItems) = Len(simState.packedItems) + 1

\* C25 as stated: a step that places an item removes the head of the pending
\* queue and nothing else from it, appends one placed item and adds 1 to the
\* step counter
C25_PlacementRemovesOnlyHead ==
  [][PlacesItem =>
       /\ simState'.itemsToPack = Tail(simState.itemsToPack)
       /\ SubSeq(simState'.packedItems, 1, Len(simState.packedItems)) = simState.packedItems
       /\ simState'.stepCount = simState.stepCount + 1]_vars

\* no active space of the current state qualifies for the head item
NoneQualifies(minSupport) ==
  \A k \in 1..Len(Active) :
    ~Qualifies(Active[k], simState.itemsToPack[1], Packed, minSupport)

\* C26: a call of performPackingStep in which no active space qualifies for
\* the head leaves the active list, the history, the placed items, the step
\* counter and the completion flag as they are; the head leaves the pending
\* queue and goes to the end of the unpacked list
C26_UnpackFrame ==
  [][\A minSupport \in Thresholds :
       (/\ Len(simState.itemsToPack) > 0
        /\ NoneQualifies(minSupport)
        /\ PerformPackingStep(minSupport))
         => /\ simState'.emsList = simState.emsList
            /\ simState'.emsHistory = simState.emsHistory
            /\ simState'.packedItems = simState.packedItems
            /\ simState'.stepCount = simState.stepCount
            /\ simState'.isSimulationComplete = simState.isSimulationComplete
            /\ simState'.itemsToPack = Tail(simState.itemsToPack)
            /\ simState'.unpackedItems =
                 Append(simState.unpackedItems, simState.itemsToPack[1])]_vars

\* an item was unpacked after another was placed, with items still pending
C26_Witness ==
  /\ Len(simState.unpackedItems) >= 1
  /\ Len(Packed) >= 1
  /\ simState.stepCount = Len(Packed)
  /\ Len(simState.itemsToPack) >= 1
  /\ simState.unpackedItems[1].id # Packed[1].id
  /\ simState.unpackedItems[1].id = ItemIds[2]

----------------------------------------------------------------------------
(* What a step depends on *)

\* in the current state, a step with the threshold minSupport returns the
\* same state for every strategy and heuristic
StepIgnores(minSupport) ==
  LET returned == performPackingStep(simState, SelectedStrategy, minSupport,
                                     DefaultHeuristic, emsIdCounter).state
  IN  \A s1 \in Strategies, h1 \in Heuristics :
        performPackingStep(simState, s1, minSupport, h1, emsIdCounter).state = returned

----------------------------------------------------------------------------
(* Ids of the history records *)

\* the records of a history carry pairwise distinct ids
DistinctRecordIds(history) ==
  \A i, j \in 1..Len(history) : history[i].id = history[j].id => i = j

\* C28: the history of a run holds no two records with the same id, also
\* when steps of other runs and their resets of the shared counter come
\* between the steps of the run
C28_HistoryIdsDistinct ==
  /\ DistinctRecordIds(simState.emsHistory)
  /\ hl.pc = "loop" => DistinctRecordIds(hl.state.emsHistory)

\* the counter was reset between two steps of the run: a record of a later
\* step carries a number that a record of an earlier step carries too
C28_Witness ==
  \E i, j \in 1..Len(simState.emsHistory) :
    /\ simState.emsHistory[i].id.step >= 1
    /\ simState.emsHistory[i].id.step < simState.emsHistory[j].id.step
    /\ simState.emsHistory[i].id.n = simState.emsHistory[j].id.n

----------------------------------------------------------------------------
(* Active list and history *)

History == simState.emsHistory

\* the elements of a sequence
Elements(s) == {s[i] : i \in 1..Len(s)}

\* the record of the history hist that carries the id of the space e
RecordOf(hist, e) == {h \in Elements(hist) : h.id = e.id}

\* the box of the item the step to the next state has placed
LastPlacedBox == PlacedBox(simState'.packedItems[Len(simState'.packedItems)])

\* a step keeps every record of the history, and changes a record at most
\* from ACTIVE to CONSUMED
HistoryKept ==
  \A h \in Elements(History) :
    \/ h \in Elements(simState'.emsHistory)
    \/ /\ h.status = "ACTIVE"
       /\ [h EXCEPT !.status = "CONSUMED"] \in Elements(simState'.emsHistory)
       /\ h \notin Elements(simState'.emsList)

\* a placing step consumes the active spaces the item's box intersects and
\* leaves the others active and as they are
ActiveConsumedOrKept ==
  \A e \in Elements(Active) :
    IF intersect(e, LastPlacedBox)
    THEN /\ RecordOf(simState'.emsHistory, e) = {[e EXCEPT !.status = "CONSUMED"]}
         /\ RecordOf(simState'.emsList, e) = {}
    ELSE /\ e \in Elements(simState'.emsList)
         /\ RecordOf(simState'.emsHistory, e) = {e}

\* C29: the active list holds exactly the history records whose status is
\* ACTIVE; a placement records the spaces it intersects as CONSUMED and
\* takes them off the active list, pruned candidates are not on it, spaces
\* not intersected stay active and unchanged, and a step removes no record
\* from the history (the transitions of a run are those that do not lower
\* its step counter: a reset puts it back to 0)
C29_ActiveListIsActiveHistory ==
  /\ [](Elements(Active) = {h \in Elements(History) : h.status = "ACTIVE"})
  /\ [][simState'.stepCount >= simState.stepCount
          => /\ HistoryKept
             /\ PlacesItem => ActiveConsumedOrKept]_vars

\* the history holds consumed, pruned and active records, and two spaces
\* are active
C29_Witness ==
  /\ \E h \in Elements(History) : h.status = "CONSUMED" /\ h.stepIndex >= 1
  /\ \E h \in Elements(History) : h.status = "PRUNED"
  /\ \E h \in Elements(History) : h.status = "ACTIVE" /\ h.stepIndex = 1
  /\ Len(Active) >= 2
  /\ Len(Packed) >= 2

----------------------------------------------------------------------------
(* The items an annealing run returns *)

Axes == {"width", "depth", "height"}

\* the dims d are the dims o with the axes permuted
IsAxisPermutation(d, o) ==
  \E p \in Permutations(Axes) : \A a \in Axes : d[a] = o[p[a]]

\* the returned item r is the input item it: same id, volume and
\* originalDims, dims as given or turned
SameItem(r, it) ==
  /\ r.id = it.id
  /\ r.volume = it.volume
  /\ r.originalDims = it.originalDims
  /\ r.dims = it.dims \/ IsAxisPermutation(r.dims, r.originalDims)

\* returned holds every item of items exactly once, and nothing else
IsPermutationOf(returned, items) ==
  /\ Len(returned) = Len(items)
  /\ \A i \in 1..Len(items) :
       Cardinality({j \in 1..Len(returned) :
                      returned[j] # Undefined /\ returned[j].id = items[i].id}) = 1
  /\ \A j \in 1..Len(returned) :
       /\ returned[j] # Undefined
       /\ \E i \in 1..Len(items) : SameItem(returned[j], items[i])

\* C30: for input items with distinct ids, the returned sequence is a
\* permutation of the input, each item with its volume and originalDims and
\* with its dims as given or an axis permutation of originalDims; the
\* caller's items are the same before and after every iteration
C30_ReturnsPermutationOfInput ==
  /\ []((sa.pc = "done" /\ DistinctIds(sa.run.items))
          => IsPermutationOf(sa.returned.items, sa.run.items))
  /\ [][(sa.pc = "loop" /\ sa'.pc = "loop") => sa'.items = sa.items]_vars

\* a run of two items returns them in the other order, and one of them
\* turned
C30_Witness ==
  /\ sa.pc = "done"
  /\ Len(sa.run.items) = 2
  /\ sa.returned.items[1].id = sa.run.items[2].id
  /\ \E j \in 1..2 : sa.returned.items[j].selectedRotation # 0

----------------------------------------------------------------------------
(* The generator *)

\* the most items a call with the config may return
MostItems(config) == Max(1, config.maxItems)

\* C21: a call of the generator makes at most maxItems * 10 iterations,
\* each one counted, whatever the random choices and also when no box has
\* an eligible axis; it holds at least one and at most max(1, maxItems)
\* boxes throughout, and returns that many items
C21_GeneratorTerminatesWithinBounds ==
  /\ [](gen.pc = "loop"
          => /\ gen.attempts <= Max(0, gen.config.maxItems * 10)
             /\ Len(gen.pendingItems) >= 1
             /\ Len(gen.pendingItems) <= MostItems(gen.config))
  /\ [](gen.pc = "done"
          => /\ Len(gen.returned) >= 1
             /\ Len(gen.returned) <= MostItems(gen.run.config))
  /\ [][(gen.pc = "loop" /\ gen'.pc = "loop") => gen'.attempts = gen.attempts + 1]_vars

\* a call that ran out of attempts returns fewer items than asked for, after
\* iterations in which no axis was eligible
C21_Witness ==
  /\ gen.pc = "done"
  /\ gen.run.attempts = gen.run.config.maxItems * 10
  /\ Len(gen.returned) < gen.run.config.maxItems
  /\ Len(gen.returned) >= 2

====
